---------------------------- MODULE Spec2Model ----------------------------
(***************************************************************************)
(* A model of scripts/eval_novel_view.py of SGS-SLAM: the evaluation       *)
(* driver (the __main__ block), get_dataset, load_scene_data and           *)
(* filter_semantic_params.                                                 *)
(*                                                                         *)
(* Strings the code inspects character by character (dataset names, the    *)
(* device string) are sequences of one-character strings.  Paths are       *)
(* sequences of tokens, a token being the separator "/" or a name.         *)
(***************************************************************************)
EXTENDS Integers, Sequences, FiniteSets, TLC

VARIABLES
    \* ---- the driver (__main__) ----
    pc,                 \* the position of the script
    error,              \* the exception that ended the run, "" if none
    args_experiment,    \* args.experiment
    experiment_config,  \* the config record the experiment file defines
    config,             \* experiment.config of this run (defaults are added in place)
    local,              \* the script's variables
    trace,              \* the calls with outside effects made by this run, in order
    load_call,          \* <<>> or <<the arguments of load_scene_data>>
    eval_call,          \* <<>> or <<the arguments of eval / eval_nvs>>
    fs,                 \* the file system: directories and files
    fs_at_start,        \* the file system when this run started
    cuda,               \* torch's CUDA state: availability and current device
    run,                \* the number of this run of the script
    passed_results_dir, \* per run: whether it got past the results-directory step
    \* ---- get_dataset on its own ----
    gd_config_dict,     \* the argument config_dict
    gd_result,          \* <<>> or <<the outcome of the call>>
    \* ---- filter_semantic_params on its own ----
    fp_params0,         \* the argument params as passed
    fp_to_remove_ids,   \* the argument to_remove_ids
    fp_params,          \* the mapping (filtered in place)
    fp_returned         \* whether the call has returned

vars == <<pc, error, args_experiment, experiment_config, config, local, trace,
          load_call, eval_call, fs, fs_at_start, cuda, run, passed_results_dir,
          gd_config_dict, gd_result,
          fp_params0, fp_to_remove_ids, fp_params, fp_returned>>

driver_vars == <<pc, error, args_experiment, experiment_config, config, local,
                 trace, load_call, eval_call, fs, fs_at_start, cuda, run,
                 passed_results_dir>>
gd_vars == <<gd_config_dict, gd_result>>
fp_vars == <<fp_params0, fp_to_remove_ids, fp_params, fp_returned>>

-----------------------------------------------------------------------------
(* Bounds of the model *)

\* how many times the script is run on the same experiment file
MaxRuns == 2
\* rows of the per-element parameter tensors
MaxRows == 4
\* the largest semantic id
MaxId == 2
\* the length of to_remove_ids
MaxRemove == 2
\* characters put before or after a dataset name to make a near miss
MaxPad == 1
\* len(dataset), the number of frames of the sequence
FramesInDataset == 2
\* data.num_semantic_classes of the experiment files
SemanticClasses == 3

-----------------------------------------------------------------------------
(* Strings *)

Range(s) == {s[i] : i \in 1..Len(s)}

Count(s, x) == Cardinality({i \in 1..Len(s) : s[i] = x})

\* str.lower(), on the characters dataset names are written with
LowerChar(c) ==
    CASE c = "A" -> "a" [] c = "C" -> "c" [] c = "D" -> "d" [] c = "E" -> "e"
      [] c = "H" -> "h" [] c = "I" -> "i" [] c = "K" -> "k" [] c = "L" -> "l"
      [] c = "M" -> "m" [] c = "N" -> "n" [] c = "O" -> "o" [] c = "P" -> "p"
      [] c = "R" -> "r" [] c = "S" -> "s" [] c = "T" -> "t" [] c = "U" -> "u"
      [] c = "V" -> "v" [] c = "Z" -> "z"
      [] OTHER -> c

Lower(s) == [i \in 1..Len(s) |-> LowerChar(s[i])]

\* str.startswith
StartsWith(s, prefix) ==
    /\ Len(prefix) <= Len(s)
    /\ SubSeq(s, 1, Len(prefix)) = prefix

\* s.split(':')[1]: the text between the first and the second colon
RECURSIVE UpToColon(_)
UpToColon(s) ==
    IF s = <<>> \/ Head(s) = ":" THEN <<>> ELSE <<Head(s)>> \o UpToColon(Tail(s))

RECURSIVE AfterFirstColon(_)
AfterFirstColon(s) ==
    IF s = <<>> THEN <<>>
    ELSE IF Head(s) = ":" THEN Tail(s) ELSE AfterFirstColon(Tail(s))

SplitColon1(s) == UpToColon(AfterFirstColon(s))

\* int() of a string of decimal digits
DigitValue(c) ==
    CASE c = "0" -> 0 [] c = "1" -> 1 [] c = "2" -> 2 [] c = "3" -> 3
      [] c = "4" -> 4 [] c = "5" -> 5 [] c = "6" -> 6 [] c = "7" -> 7
      [] c = "8" -> 8 [] c = "9" -> 9

RECURSIVE ParseInt(_)
ParseInt(s) ==
    IF s = <<>> THEN 0 ELSE ParseInt(SubSeq(s, 1, Len(s) - 1)) * 10 + DigitValue(s[Len(s)])

-----------------------------------------------------------------------------
(* Paths and the file system *)

\* os.path.join of two components (posixpath)
OsPathJoin(a, b) ==
    IF b # <<>> /\ Head(b) = "/" THEN b
    ELSE IF a = <<>> \/ a[Len(a)] = "/" THEN a \o b
    ELSE a \o <<"/">> \o b

\* the directories above a path
Ancestors(p) == {SubSeq(p, 1, i - 1) : i \in {j \in 2..Len(p) : p[j] = "/"}}

\* os.makedirs(path, exist_ok): the outcome and the file system after it
Makedirs(f, path, exist_ok) ==
    IF path \in f.dirs /\ ~exist_ok
    THEN [raised |-> "FileExistsError", fs |-> f]
    ELSE [raised |-> "", fs |-> [f EXCEPT !.dirs = @ \cup {path} \cup Ancestors(path)]]

\* shutil.copy(src, dst): dst gets the content of src; copying a file onto
\* itself raises
ShutilCopy(f, src, dst) ==
    IF src = dst
    THEN [raised |-> "SameFileError", fs |-> f]
    ELSE [raised |-> "",
          fs |-> [f EXCEPT !.files =
                     [p \in (DOMAIN @) \cup {dst} |-> IF p = dst THEN @[src] ELSE @[p]]]]

-----------------------------------------------------------------------------
(* get_dataset *)

\* the branches of get_dataset in the order of the code: the names a branch
\* accepts, the adapter it constructs, and whether the constructor is given
\* config_dict
DatasetBranches ==
    <<
       [names |-> <<<<"i", "c", "l">>>>, cls |-> "ICLDataset", config_dict |-> TRUE],
       [names |-> <<<<"r", "e", "p", "l", "i", "c", "a">>>>, cls |-> "ReplicaDataset", config_dict |-> TRUE],
       [names |-> <<<<"r", "e", "p", "l", "i", "c", "a", "v", "2">>>>, cls |-> "ReplicaV2Dataset", config_dict |-> TRUE],
       [names |-> <<<<"a", "z", "u", "r", "e">>, <<"a", "z", "u", "r", "e", "k", "i", "n", "e", "c", "t">>>>, cls |-> "AzureKinectDataset", config_dict |-> TRUE],
       [names |-> <<<<"s", "c", "a", "n", "n", "e", "t">>>>, cls |-> "ScannetDataset", config_dict |-> TRUE],
       [names |-> <<<<"a", "i", "2", "t", "h", "o", "r">>>>, cls |-> "Ai2thorDataset", config_dict |-> TRUE],
       [names |-> <<<<"r", "e", "c", "o", "r", "d", "3", "d">>>>, cls |-> "Record3DDataset", config_dict |-> TRUE],
       [names |-> <<<<"r", "e", "a", "l", "s", "e", "n", "s", "e">>>>, cls |-> "RealsenseDataset", config_dict |-> TRUE],
       [names |-> <<<<"t", "u", "m">>>>, cls |-> "TUMDataset", config_dict |-> TRUE],
       [names |-> <<<<"s", "c", "a", "n", "n", "e", "t", "p", "p">>>>, cls |-> "ScannetPPDataset", config_dict |-> FALSE]
    >>

\* an adapter constructed with the given positional arguments and **kwargs
Adapter(cls, with_config, config_dict, basedir, sequence, kwargs) ==
    [cls |-> cls,
     positional |-> IF with_config THEN <<"config_dict", "basedir", "sequence">>
                    ELSE <<"basedir", "sequence">>,
     dataset_name |-> IF with_config THEN config_dict.dataset_name ELSE <<>>,
     basedir |-> basedir,
     sequence |-> sequence,
     kwargs |-> kwargs]

\* the first branch whose list holds name, 0 if none does
FirstBranch(name) ==
    LET hits == {i \in 1..Len(DatasetBranches) : name \in Range(DatasetBranches[i].names)}
    IN  IF hits = {} THEN 0 ELSE CHOOSE i \in hits : \A j \in hits : i <= j

\* a slip get_dataset could have: the name is compared as written
GetDatasetCaseSensitive(config_dict, basedir, sequence, kwargs) ==
    LET b == FirstBranch(config_dict.dataset_name)
    IN  IF b = 0
        THEN [raised |-> "ValueError", constructed |-> <<>>]
        ELSE [raised |-> "",
              constructed |-> <<Adapter(DatasetBranches[b].cls, DatasetBranches[b].config_dict,
                                        config_dict, basedir, sequence, kwargs)>>]

\* get_dataset(config_dict, basedir, sequence, **kwargs): the exception raised
\* ("" if none) and the adapters constructed
GetDataset(config_dict, basedir, sequence, kwargs) ==
    LET b == FirstBranch(Lower(config_dict.dataset_name))
    IN  IF b = 0
        THEN [raised |-> "ValueError", constructed |-> <<>>]
        ELSE [raised |-> "",
              constructed |-> <<Adapter(DatasetBranches[b].cls, DatasetBranches[b].config_dict,
                                        config_dict, basedir, sequence, kwargs)>>]

-----------------------------------------------------------------------------
(* filter_semantic_params *)

\* A tensor is the sequence of its rows (its first dimension); a row of
\* semantic_ids, of shape (N,1), is a one-element sequence.

\* (semantic_ids == to_remove_ids).any(dim=1), to_remove_ids being unsqueezed
\* to shape (1,K): row i is marked when its id equals one of the K ids
ToRemoveMask(semantic_ids, to_remove_ids) ==
    [i \in 1..Len(semantic_ids) |->
        \E j \in 1..Len(to_remove_ids) : semantic_ids[i][1] = to_remove_ids[j]]

\* ~mask
Not(mask) == [i \in 1..Len(mask) |-> ~mask[i]]

\* tensor[mask] for a boolean mask over the rows (mask and tensor have the
\* same number of rows): the rows the mask marks, in their order
RECURSIVE BoolIndex(_, _)
BoolIndex(tensor, mask) ==
    IF mask = <<>> THEN <<>>
    ELSE (IF Head(mask) THEN <<Head(tensor)>> ELSE <<>>)
         \o BoolIndex(Tail(tensor), Tail(mask))

\* the two camera-pose tensors
CamKeys == {"cam_unnorm_rots", "cam_trans"}

\* a slip filter_semantic_params could have: the rows are indexed with
\* to_remove_mask
FilterSemanticParamsNoNegation(params, to_remove_ids) ==
    IF "semantic_ids" \in DOMAIN params
    THEN LET to_remove_mask == ToRemoveMask(params["semantic_ids"], to_remove_ids)
         IN  [k \in DOMAIN params |->
                 IF k \notin CamKeys THEN BoolIndex(params[k], to_remove_mask)
                 ELSE params[k]]
    ELSE params

\* filter_semantic_params(params, to_remove_ids): the mapping after the call
\* (params is changed in place and returned)
FilterSemanticParams(params, to_remove_ids) ==
    IF "semantic_ids" \in DOMAIN params
    THEN LET semantic_ids == params["semantic_ids"]
             to_remove_mask == ToRemoveMask(semantic_ids, to_remove_ids)
             to_keep_mask == Not(to_remove_mask)
             keys == {k \in DOMAIN params : k \notin CamKeys}
         IN  [k \in DOMAIN params |->
                 IF k \in keys THEN BoolIndex(params[k], to_keep_mask) ELSE params[k]]
    ELSE params

-----------------------------------------------------------------------------
(* torch devices and load_scene_data *)

CudaStr == <<"c", "u", "d", "a">>
CpuStr == <<"c", "p", "u">>

\* torch.device(s): the device type and, if s names one, the device index
TorchDevice(s) ==
    [type |-> UpToColon(s),
     index |-> IF ":" \in Range(s) THEN <<ParseInt(SplitColon1(s))>> ELSE <<>>]

\* where a tensor moved with .to(device) lives: a CUDA device without an
\* index is the current CUDA device
Placement(device, cu) ==
    IF device.type = CudaStr /\ device.index = <<>>
    THEN [type |-> CudaStr, index |-> <<cu.current>>]
    ELSE device

\* whether tensors can be moved to the device on this machine
DeviceUsable(device, cu) == device.type = CudaStr => cu.available

\* load_scene_data(scene_path, params_opt_exclude, device) for an archive that
\* np.load has read (a mapping from key to the dtype of its array): per key,
\* the tensor's device, dtype and requires_grad
LoadSceneData(archive, params_opt_exclude, device, cu) ==
    [k \in DOMAIN archive |->
        IF k \notin params_opt_exclude
        THEN [device |-> Placement(TorchDevice(device), cu),
              dtype |-> "float32",
              requires_grad |-> TRUE]
        ELSE [device |-> Placement(TorchDevice(device), cu),
              dtype |-> archive[k],
              requires_grad |-> FALSE]]

\* the default of load_scene_data's parameter device
LoadSceneDataDefaultDevice == CudaStr

-----------------------------------------------------------------------------
(* The driver: its inputs *)

\* the keys section 4.1 and section 6 of the specification call the minimum
\* of the configuration record and of its dataset sub-record
MinimumKeys ==
    {"seed", "primary_device", "workdir", "run_name", "load_checkpoint", "data",
     "mapping", "mapping.sil_thres", "mapping.num_iters",
     "mapping.add_new_gaussians", "eval_every", "use_wandb",
     "data.dataset_name", "data.basedir", "data.sequence", "data.start",
     "data.end", "data.stride", "data.desired_image_height",
     "data.desired_image_width"}

\* the tracking section of the configuration record
WandbKeys ==
    {"wandb", "wandb.name", "wandb.project", "wandb.entity", "wandb.group",
     "wandb.eval_save_qual"}

PrimaryDevices ==
    {CpuStr, CudaStr, <<"c", "u", "d", "a", ":", "1">>}

Workdirs == {<<"exp">>, <<"exp", "/">>}

RunNames == {<<"run">>, <<"/", "abs">>}

ExperimentPaths == {<<"cfg.py">>, <<"exp", "/", "run", "/", "config.py">>}

ExplicitScenePath == <<"other", "/", "scene.npz">>

DriverDatasetNames ==
    {<<"i", "c", "l">>, <<"S", "c", "a", "n", "N", "e", "t", "P", "P">>,
     <<"k", "i", "t", "t", "i">>}

\* the archives np.load may find: a mapping from key to dtype
Archives ==
    {[k \in {"means3D", "cam_trans"} |-> "float64"],
     [k \in {"means3D", "cam_trans", "semantic_ids"} |->
         IF k = "semantic_ids" THEN "int64" ELSE "float64"]}

\* the optional keys an experiment file of the grid may define, in every
\* combination
OptionalKeySets ==
    {a \cup b \cup c \cup d \cup e :
        a \in {{}, {"scene_path"}},
        b \in {{}, {"data.use_train_split"}},
        c \in {{}, {"data.load_semantics", "data.num_semantic_classes"}},
        d \in {{}, {"data.num_frames"}},
        e \in {{}, WandbKeys}}

\* a configuration record: the keys the experiment file defines and the
\* values of those the model reads (the value of a key that is not defined
\* is never read)
Config(keys, dev, wd, rn, lc, uw, dn, uts, nf, yaml) ==
    [keys |-> keys,
     primary_device |-> dev,
     workdir |-> wd,
     run_name |-> rn,
     load_checkpoint |-> lc,
     scene_path |-> IF "scene_path" \in keys THEN ExplicitScenePath ELSE <<>>,
     use_wandb |-> uw,
     dataset_name |-> dn,
     ignore_bad |-> FALSE,
     use_train_split |-> IF "data.use_train_split" \in keys THEN uts ELSE FALSE,
     load_semantics |-> "data.load_semantics" \in keys,
     num_frames |-> IF "data.num_frames" \in keys THEN nf ELSE 0,
     \* what load_dataset_config reads from the file gradslam_data_cfg names
     gradslam_dataset_name |-> IF "data.gradslam_data_cfg" \in keys THEN yaml ELSE <<>>]

\* the grid: every combination of the inputs the branches of the driver read
GridConfigs ==
    {Config(MinimumKeys \cup opt, dev, wd, rn, lc, uw, dn, uts, 0 - 1, <<>>) :
        opt \in OptionalKeySets, dev \in PrimaryDevices, wd \in Workdirs,
        rn \in RunNames, lc \in BOOLEAN, uw \in BOOLEAN,
        dn \in DriverDatasetNames,
        uts \in BOOLEAN}

\* every key the driver may read
AllKeys ==
    MinimumKeys \cup WandbKeys \cup
    {"scene_path", "data.gradslam_data_cfg", "data.ignore_bad",
     "data.use_train_split", "data.load_semantics", "data.num_semantic_classes",
     "data.num_frames"}

\* beside the grid: a complete configuration with one key left out, one with
\* the keys of the minimum and only the two further keys a run without
\* tracking reads, and one with a dataset configuration file, with ignore_bad
\* or with a frame count
SideConfigs ==
    {Config(AllKeys \ ({"data.gradslam_data_cfg", "data.ignore_bad"} \cup {k}),
            CudaStr, <<"exp">>, <<"run">>, FALSE, uw, <<"i", "c", "l">>, TRUE, 0 - 1, <<>>) :
        k \in AllKeys, uw \in BOOLEAN}
    \cup
    {Config(MinimumKeys \cup {"data.num_frames", "wandb", "wandb.name"},
            dev, <<"exp">>, <<"run">>, lc, FALSE, dn, FALSE, 0 - 1, <<>>) :
        dev \in PrimaryDevices, lc \in BOOLEAN, dn \in DriverDatasetNames}
    \cup
    {Config(AllKeys \ ign, CudaStr, <<"exp">>, <<"run">>, FALSE, TRUE, <<"t", "u", "m">>,
            FALSE, nf, yaml) :
        ign \in {{}, {"data.ignore_bad"}}, nf \in {0 - 1, 2},
        yaml \in DriverDatasetNames}

Configs == GridConfigs \cup SideConfigs

-----------------------------------------------------------------------------
(* The driver: the pieces of __main__ *)

NoError == [type |-> "", what |-> ""]

\* the first key of ks (the keys a piece reads, in the order it reads them)
\* that the record does not define, "" if it defines them all
FirstMissing(ks, keys) ==
    LET miss == {i \in 1..Len(ks) : ks[i] \notin keys}
    IN  IF miss = {} THEN "" ELSE ks[CHOOSE i \in miss : \A j \in miss : i <= j]

\* the script's variables before any is assigned
NoLocals ==
    [device |-> [type |-> <<>>, index |-> <<>>],
     params_opt_exclude |-> {},
     results_dir |-> <<>>,
     scene_path |-> <<>>,
     gradslam_data_cfg |-> [dataset_name |-> <<>>],
     load_semantics |-> FALSE,
     num_semantic_classes |-> 0,
     dataset |-> <<>>,
     num_frames |-> 0,
     params |-> <<>>,
     eval_dir |-> <<>>,
     wandb_name |-> <<>>,
     wandb_run |-> <<>>]

\* the steps of the script in the order of its lines, wandb.init moved
\* before the dataset is built
PipelineWandbFirst ==
    <<"start", "results_dir", "scene_path", "wandb_init", "dataset_config",
      "get_dataset", "load_scene_data", "eval_dir", "eval", "wandb_finish", "done">>

\* the steps of the script in the order of its lines
Pipeline ==
    <<"start", "results_dir", "scene_path", "dataset_config", "get_dataset",
      "load_scene_data", "eval_dir", "wandb_init", "eval", "wandb_finish", "done">>

\* the step after step p
After(p) == Pipeline[(CHOOSE i \in 1..Len(Pipeline) : Pipeline[i] = p) + 1]

\* results_dir = os.path.join(workdir, run_name)
ResultsDirOf(cfg) == OsPathJoin(cfg.workdir, cfg.run_name)

\* a slip: os.makedirs without exist_ok
CreateResultsDirNoExistOk(f, cfg, experiment) ==
    IF ~cfg.load_checkpoint
    THEN LET made == Makedirs(f, ResultsDirOf(cfg), FALSE)
             copied == ShutilCopy(made.fs, experiment,
                                  OsPathJoin(ResultsDirOf(cfg), <<"config.py">>))
         IN  IF made.raised # ""
             THEN [raised |-> made.raised, fs |-> made.fs, calls |-> <<"makedirs">>]
             ELSE [raised |-> copied.raised, fs |-> copied.fs,
                   calls |-> <<"makedirs", "copy">>]
    ELSE [raised |-> "", fs |-> f, calls |-> <<>>]

\* "Create Results Directory and Copy Config": the exception raised, the file
\* system after it and the calls made
CreateResultsDir(f, cfg, experiment) ==
    IF ~cfg.load_checkpoint
    THEN LET made == Makedirs(f, ResultsDirOf(cfg), TRUE)
             copied == ShutilCopy(made.fs, experiment,
                                  OsPathJoin(ResultsDirOf(cfg), <<"config.py">>))
         IN  IF made.raised # ""
             THEN [raised |-> made.raised, fs |-> made.fs, calls |-> <<"makedirs">>]
             ELSE [raised |-> copied.raised, fs |-> copied.fs,
                   calls |-> <<"makedirs", "copy">>]
    ELSE [raised |-> "", fs |-> f, calls |-> <<>>]

\* a slip: the archive is always looked for in the results directory
ResolveScenePathDerivedOnly(cfg) ==
    OsPathJoin(OsPathJoin(cfg.workdir, cfg.run_name), <<"params.npz">>)

\* the path of the scene-parameter archive
ResolveScenePath(cfg) ==
    IF "scene_path" \notin cfg.keys
    THEN OsPathJoin(OsPathJoin(cfg.workdir, cfg.run_name), <<"params.npz">>)
    ELSE cfg.scene_path

\* a slip: the two branches of the dispatch exchanged
EvalRoutineSwapped(use_train_split) ==
    IF use_train_split THEN "eval_nvs" ELSE "eval"

\* the evaluation routine the dispatch calls
EvalRoutine(use_train_split) ==
    IF use_train_split THEN "eval" ELSE "eval_nvs"

\* eval_dir
EvalDirOf(results_dir, use_train_split) ==
    IF use_train_split THEN OsPathJoin(results_dir, <<"eval_train">>)
    ELSE OsPathJoin(results_dir, <<"eval_nvs">>)

\* a slip: wandb_save_qual passed in the branch without tracking too
EvalArgumentKeysAlwaysQual(use_wandb) ==
    <<"mapping", "mapping.sil_thres", "wandb", "wandb.eval_save_qual",
      "mapping.num_iters", "mapping.add_new_gaussians", "eval_every">>

\* the keys the arguments of the evaluation call read, in their order
EvalArgumentKeys(use_wandb) ==
    IF use_wandb
    THEN <<"mapping", "mapping.sil_thres", "wandb", "wandb.eval_save_qual",
           "mapping.num_iters", "mapping.add_new_gaussians", "eval_every">>
    ELSE <<"mapping", "mapping.sil_thres", "mapping.num_iters",
           "mapping.add_new_gaussians", "eval_every">>

\* a slip: the tracking run is closed whether or not one was opened
CloseWandbCallsAlways(use_wandb) == <<"finish">>

\* "Close WandB": the calls made
CloseWandbCalls(use_wandb) == IF use_wandb THEN <<"finish">> ELSE <<>>

-----------------------------------------------------------------------------
(* The driver: its steps *)

\* the run ends with an exception
Fail(type, what) ==
    /\ pc' = "failed"
    /\ error' = [type |-> type, what |-> what]

\* the run goes on to the next step
Proceed ==
    /\ pc' = After(pc)
    /\ error' = error

\* lines 88-106: the experiment file is loaded, the seed set and the device
\* selected
Start ==
    /\ pc = "start"
    /\ LET missing == FirstMissing(<<"seed", "primary_device">>, config.keys)
           device == TorchDevice(config.primary_device)
           selects == StartsWith(config.primary_device, CudaStr \o <<":">>)
           device_id == ParseInt(SplitColon1(config.primary_device))
       IN  IF missing # ""
           THEN /\ Fail("KeyError", missing)
                /\ UNCHANGED <<local, cuda>>
           ELSE IF selects /\ ~cuda.available
           THEN /\ Fail("DeviceError", "set_device")
                /\ local' = [local EXCEPT !.device = device]
                /\ UNCHANGED cuda
           ELSE /\ Proceed
                /\ local' = [local EXCEPT !.device = device]
                /\ cuda' = IF selects THEN [cuda EXCEPT !.current = device_id] ELSE cuda
    /\ UNCHANGED <<args_experiment, experiment_config, config, trace, load_call,
                   eval_call, fs, fs_at_start, run, passed_results_dir, gd_vars, fp_vars>>

\* lines 108-114: the results directory and the copy of the config
ResultsDir ==
    /\ pc = "results_dir"
    /\ LET missing == FirstMissing(<<"workdir", "run_name", "load_checkpoint">>, config.keys)
           done == CreateResultsDir(fs, config, args_experiment)
       IN  IF missing # ""
           THEN /\ Fail("KeyError", missing)
                /\ UNCHANGED <<local, fs, trace, passed_results_dir>>
           ELSE /\ local' = [local EXCEPT !.results_dir = ResultsDirOf(config)]
                /\ fs' = done.fs
                /\ trace' = trace \o done.calls
                /\ IF done.raised # ""
                   THEN /\ Fail(done.raised, "results_dir")
                        /\ UNCHANGED passed_results_dir
                   ELSE /\ Proceed
                        /\ passed_results_dir' = [passed_results_dir EXCEPT ![run] = TRUE]
    /\ UNCHANGED <<args_experiment, experiment_config, config, load_call, eval_call,
                   fs_at_start, cuda, run, gd_vars, fp_vars>>

\* lines 116-122: the path of the scene-parameter archive
ScenePath ==
    /\ pc = "scene_path"
    /\ LET missing == IF "scene_path" \notin config.keys
                      THEN FirstMissing(<<"workdir", "run_name">>, config.keys)
                      ELSE ""
       IN  IF missing # ""
           THEN /\ Fail("KeyError", missing)
                /\ UNCHANGED local
           ELSE /\ Proceed
                /\ local' = [local EXCEPT !.scene_path = ResolveScenePath(config),
                                          !.results_dir = IF "scene_path" \notin config.keys
                                                          THEN ResultsDirOf(config) ELSE @]
    /\ UNCHANGED <<args_experiment, experiment_config, config, trace, load_call,
                   eval_call, fs, fs_at_start, cuda, run, passed_results_dir,
                   gd_vars, fp_vars>>

\* lines 124-142: the dataset sub-record, its defaults and the semantics flags
DatasetConfig ==
    /\ pc = "dataset_config"
    /\ LET from_file == "data.gradslam_data_cfg" \in config.keys
           missing1 == FirstMissing(IF from_file THEN <<"data">>
                                    ELSE <<"data", "data.dataset_name">>, config.keys)
           gradslam_data_cfg ==
               IF from_file THEN [dataset_name |-> config.gradslam_dataset_name]
               ELSE [dataset_name |-> config.dataset_name]
           defaulted ==
               [config EXCEPT
                   !.keys = @ \cup {"data.ignore_bad", "data.use_train_split"},
                   !.ignore_bad = IF "data.ignore_bad" \in config.keys THEN @ ELSE FALSE,
                   !.use_train_split =
                       IF "data.use_train_split" \in config.keys THEN @ ELSE TRUE]
           semantics == "data.load_semantics" \in config.keys
           missing2 == IF semantics
                       THEN FirstMissing(<<"data.num_semantic_classes">>, config.keys)
                       ELSE ""
       IN  IF missing1 # ""
           THEN /\ Fail("KeyError", missing1)
                /\ UNCHANGED <<local, config>>
           ELSE /\ config' = defaulted
                /\ IF missing2 # ""
                   THEN /\ Fail("KeyError", missing2)
                        /\ local' = [local EXCEPT
                                        !.gradslam_data_cfg = gradslam_data_cfg,
                                        !.load_semantics = config.load_semantics]
                   ELSE /\ Proceed
                        /\ local' = [local EXCEPT
                              !.gradslam_data_cfg = gradslam_data_cfg,
                              !.load_semantics = IF semantics THEN config.load_semantics
                                                 ELSE FALSE,
                              !.num_semantic_classes = IF semantics THEN SemanticClasses
                                                       ELSE 0,
                              !.params_opt_exclude = IF semantics
                                                     THEN @ \cup {"semantic_ids"} ELSE @]
    /\ UNCHANGED <<args_experiment, experiment_config, trace, load_call, eval_call,
                   fs, fs_at_start, cuda, run, passed_results_dir, gd_vars, fp_vars>>

\* lines 143-163: get_dataset and the number of frames; the constructor of the
\* adapter reads the sequence from disk and may fail
BuildDataset ==
    /\ pc = "get_dataset"
    /\ \E readable \in BOOLEAN :
       LET missing == FirstMissing(<<"data.basedir", "data.sequence", "data.start",
                                     "data.end", "data.stride",
                                     "data.desired_image_height",
                                     "data.desired_image_width", "data.ignore_bad",
                                     "data.use_train_split">>, config.keys)
           got == GetDataset(local.gradslam_data_cfg, "basedir", "sequence",
                             [device |-> local.device,
                              relative_pose |-> TRUE,
                              ignore_bad |-> config.ignore_bad,
                              use_train_split |-> config.use_train_split,
                              load_semantics |-> local.load_semantics,
                              num_semantic_classes |-> local.num_semantic_classes])
           missing_frames == FirstMissing(<<"data.num_frames">>, config.keys)
       IN  IF missing # ""
           THEN /\ Fail("KeyError", missing)
                /\ UNCHANGED <<local, trace>>
           ELSE IF got.raised # ""
           THEN /\ Fail(got.raised, "get_dataset")
                /\ UNCHANGED <<local, trace>>
           ELSE IF ~readable
           THEN /\ Fail("IOError", "get_dataset")
                /\ UNCHANGED <<local, trace>>
           ELSE /\ trace' = Append(trace, "dataset")
                /\ IF missing_frames # ""
                   THEN /\ Fail("KeyError", missing_frames)
                        /\ local' = [local EXCEPT !.dataset = got.constructed]
                   ELSE /\ Proceed
                        /\ local' = [local EXCEPT
                              !.dataset = got.constructed,
                              !.num_frames = IF config.num_frames = 0 - 1
                                             THEN FramesInDataset
                                             ELSE config.num_frames]
    /\ UNCHANGED <<args_experiment, experiment_config, config, load_call, eval_call,
                   fs, fs_at_start, cuda, run, passed_results_dir, gd_vars, fp_vars>>

\* line 165: load_scene_data(scene_path, params_opt_exclude), device being
\* left to its default; np.load finds an archive or fails
LoadParams ==
    /\ pc = "load_scene_data"
    /\ trace' = Append(trace, "load_scene_data")
    /\ \E found \in BOOLEAN, archive \in Archives :
       /\ load_call' = <<[scene_path |-> local.scene_path,
                          params_opt_exclude |-> local.params_opt_exclude,
                          device |-> LoadSceneDataDefaultDevice,
                          archive |-> IF found THEN <<archive>> ELSE <<>>]>>
       /\ IF ~found
          THEN /\ Fail("IOError", "load_scene_data")
               /\ UNCHANGED local
          ELSE IF ~DeviceUsable(TorchDevice(LoadSceneDataDefaultDevice), cuda)
          THEN /\ Fail("DeviceError", "load_scene_data")
               /\ UNCHANGED local
          ELSE /\ Proceed
               /\ local' = [local EXCEPT !.params =
                     <<LoadSceneData(archive, local.params_opt_exclude,
                                     LoadSceneDataDefaultDevice, cuda)>>]
    /\ UNCHANGED <<args_experiment, experiment_config, config, eval_call, fs,
                   fs_at_start, cuda, run, passed_results_dir, gd_vars, fp_vars>>

\* lines 170-175: the output directory and the name of the tracking run
EvalNames ==
    /\ pc = "eval_dir"
    /\ LET missing == FirstMissing(<<"data.use_train_split", "wandb", "wandb.name">>,
                                   config.keys)
       IN  IF missing # ""
           THEN /\ Fail("KeyError", missing)
                /\ local' = [local EXCEPT
                                !.eval_dir = EvalDirOf(local.results_dir,
                                                       config.use_train_split)]
           ELSE /\ Proceed
                /\ local' = [local EXCEPT
                      !.eval_dir = EvalDirOf(local.results_dir, config.use_train_split),
                      !.wandb_name = IF config.use_train_split
                                     THEN <<"name", "_Train_Split">>
                                     ELSE <<"name", "_NVS_Split">>]
    /\ UNCHANGED <<args_experiment, experiment_config, config, trace, load_call,
                   eval_call, fs, fs_at_start, cuda, run, passed_results_dir,
                   gd_vars, fp_vars>>

\* lines 177-186: "Init WandB"
InitWandb ==
    /\ pc = "wandb_init"
    /\ LET missing == IF "use_wandb" \notin config.keys THEN "use_wandb"
                      ELSE IF config.use_wandb
                      THEN FirstMissing(<<"wandb", "wandb.project", "wandb.entity",
                                          "wandb.group">>, config.keys)
                      ELSE ""
       IN  IF missing # ""
           THEN /\ Fail("KeyError", missing)
                /\ UNCHANGED <<local, trace>>
           ELSE /\ Proceed
                /\ IF config.use_wandb
                   THEN /\ trace' = Append(trace, "wandb.init")
                        /\ local' = [local EXCEPT !.wandb_run = <<local.wandb_name>>]
                   ELSE UNCHANGED <<local, trace>>
    /\ UNCHANGED <<args_experiment, experiment_config, config, load_call, eval_call,
                   fs, fs_at_start, cuda, run, passed_results_dir, gd_vars, fp_vars>>

\* lines 188-209: one of eval and eval_nvs is called under torch.no_grad(); it
\* returns or raises
Evaluate ==
    /\ pc = "eval"
    /\ LET missing == FirstMissing(<<"use_wandb", "data.use_train_split">>
                                   \o EvalArgumentKeys(config.use_wandb), config.keys)
           routine == EvalRoutine(config.use_train_split)
       IN  IF missing # ""
           THEN /\ Fail("KeyError", missing)
                /\ UNCHANGED <<trace, eval_call>>
           ELSE /\ eval_call' = <<[routine |-> routine,
                                   eval_dir |-> local.eval_dir,
                                   num_frames |-> local.num_frames,
                                   wandb_run |-> IF config.use_wandb THEN local.wandb_run
                                                 ELSE <<>>,
                                   load_semantics |-> local.load_semantics]>>
                /\ \E returns \in BOOLEAN :
                      IF returns
                      THEN /\ trace' = trace \o <<routine, "returned">>
                           /\ Proceed
                      ELSE /\ trace' = trace \o <<routine, "raised">>
                           /\ Fail("EvalError", routine)
    /\ UNCHANGED <<args_experiment, experiment_config, config, local, load_call, fs,
                   fs_at_start, cuda, run, passed_results_dir, gd_vars, fp_vars>>

\* lines 211-213: "Close WandB"
CloseWandb ==
    /\ pc = "wandb_finish"
    /\ trace' = trace \o CloseWandbCalls(config.use_wandb)
    /\ Proceed
    /\ UNCHANGED <<args_experiment, experiment_config, config, local, load_call,
                   eval_call, fs, fs_at_start, cuda, run, passed_results_dir,
                   gd_vars, fp_vars>>

\* the script is run again on the same experiment file, in a new process, on
\* the file system the run before left
Rerun ==
    /\ pc \in {"done", "failed"}
    /\ run < MaxRuns
    /\ pc' = "start"
    /\ error' = NoError
    /\ config' = experiment_config
    /\ local' = NoLocals
    /\ trace' = <<>>
    /\ load_call' = <<>>
    /\ eval_call' = <<>>
    /\ fs_at_start' = fs
    /\ cuda' = [cuda EXCEPT !.current = 0]
    /\ run' = run + 1
    /\ passed_results_dir' = Append(passed_results_dir, FALSE)
    /\ UNCHANGED <<args_experiment, experiment_config, fs, gd_vars, fp_vars>>

-----------------------------------------------------------------------------
(* The specification of the driver *)

\* the three functions are run on their own: the variables of the other two
\* stay as they are here
DriverIdle ==
    /\ pc = "idle"
    /\ error = NoError
    /\ args_experiment = <<>>
    /\ experiment_config = Config({}, <<>>, <<>>, <<>>, FALSE, FALSE, <<>>, FALSE, 0, <<>>)
    /\ config = experiment_config
    /\ local = NoLocals
    /\ trace = <<>>
    /\ load_call = <<>>
    /\ eval_call = <<>>
    /\ fs = [dirs |-> {}, files |-> <<>>]
    /\ fs_at_start = fs
    /\ cuda = [available |-> FALSE, current |-> 0]
    /\ run = 1
    /\ passed_results_dir = <<FALSE>>

GetDatasetIdle ==
    /\ gd_config_dict = [dataset_name |-> <<>>]
    /\ gd_result = <<>>

FilterIdle ==
    /\ fp_params0 = <<>>
    /\ fp_to_remove_ids = <<>>
    /\ fp_params = <<>>
    /\ fp_returned = FALSE

\* the script is started on an experiment file; the file system holds that
\* file and the directories above it
Init ==
    /\ pc = "start"
    /\ error = NoError
    /\ args_experiment \in ExperimentPaths
    /\ experiment_config \in Configs
    /\ config = experiment_config
    /\ local = NoLocals
    /\ trace = <<>>
    /\ load_call = <<>>
    /\ eval_call = <<>>
    /\ fs = [dirs |-> Ancestors(args_experiment),
             files |-> [p \in {args_experiment} |-> "experiment"]]
    /\ fs_at_start = fs
    /\ cuda \in [available : BOOLEAN, current : {0}]
    /\ run = 1
    /\ passed_results_dir = <<FALSE>>
    /\ GetDatasetIdle
    /\ FilterIdle

Next ==
    \/ Start
    \/ ResultsDir
    \/ ScenePath
    \/ DatasetConfig
    \/ BuildDataset
    \/ LoadParams
    \/ EvalNames
    \/ InitWandb
    \/ Evaluate
    \/ CloseWandb
    \/ Rerun

Spec == Init /\ [][Next]_vars

-----------------------------------------------------------------------------
(* get_dataset on its own *)

\* the ten dataset names the specification lists
TenNames ==
    {<<"i", "c", "l">>,
     <<"r", "e", "p", "l", "i", "c", "a">>,
     <<"r", "e", "p", "l", "i", "c", "a", "v", "2">>,
     <<"a", "z", "u", "r", "e", "k", "i", "n", "e", "c", "t">>,
     <<"s", "c", "a", "n", "n", "e", "t">>,
     <<"a", "i", "2", "t", "h", "o", "r">>,
     <<"r", "e", "c", "o", "r", "d", "3", "d">>,
     <<"r", "e", "a", "l", "s", "e", "n", "s", "e">>,
     <<"t", "u", "m">>,
     <<"s", "c", "a", "n", "n", "e", "t", "p", "p">>}

\* str.upper(), on the letters of the names
UpperChar(c) ==
    CASE c = "a" -> "A" [] c = "c" -> "C" [] c = "d" -> "D" [] c = "e" -> "E"
      [] c = "h" -> "H" [] c = "i" -> "I" [] c = "k" -> "K" [] c = "l" -> "L"
      [] c = "m" -> "M" [] c = "n" -> "N" [] c = "o" -> "O" [] c = "p" -> "P"
      [] c = "r" -> "R" [] c = "s" -> "S" [] c = "t" -> "T" [] c = "u" -> "U"
      [] c = "v" -> "V" [] c = "z" -> "Z"
      [] OTHER -> c

\* a word in every mix of upper and lower case
CaseVariants(w) ==
    {[i \in 1..Len(w) |-> IF i \in S THEN UpperChar(w[i]) ELSE w[i]] :
        S \in SUBSET (1..Len(w))}

\* the beginnings of a word, the empty one and the word itself included
Prefixes(w) == {SubSeq(w, 1, n) : n \in 0..Len(w)}

\* what is put before or after a name to make a near miss
Pads == UNION {[1..n -> {"x", "_", "2"}] : n \in 1..MaxPad}

\* the names get_dataset is called with: the ten names and their beginnings
\* (among them the ten names' near misses and "azure") in every letter case,
\* and the names with something before or after them
NameInputs ==
    UNION {CaseVariants(p) : p \in UNION {Prefixes(w) : w \in TenNames}}
    \cup {w \o p : w \in TenNames, p \in Pads}
    \cup {p \o w : w \in TenNames, p \in Pads}

InitDataset ==
    /\ gd_config_dict \in {[dataset_name |-> n] : n \in NameInputs}
    /\ gd_result = <<>>
    /\ DriverIdle
    /\ FilterIdle

\* get_dataset is called
CallGetDataset ==
    /\ gd_result = <<>>
    /\ gd_result' = <<GetDataset(gd_config_dict, "basedir", "sequence",
                                 [relative_pose |-> TRUE])>>
    /\ UNCHANGED <<gd_config_dict, driver_vars, fp_vars>>

NextDataset == CallGetDataset

SpecDataset == InitDataset /\ [][NextDataset]_vars

-----------------------------------------------------------------------------
(* filter_semantic_params on its own *)

\* a parameter mapping with n rows per element: semantic_ids (if it has them)
\* of shape (n,1), means3D with rows that differ, rgb_colors with rows that
\* are alike, and the two camera-pose tensors with one row
ParamsOf(n, ids, with_ids) ==
    [k \in {"means3D", "rgb_colors", "cam_unnorm_rots", "cam_trans"}
           \cup (IF with_ids THEN {"semantic_ids"} ELSE {}) |->
        CASE k = "semantic_ids" -> [i \in 1..n |-> <<ids[i]>>]
          [] k = "means3D" -> [i \in 1..n |-> i]
          [] k = "rgb_colors" -> [i \in 1..n |-> "rgb"]
          [] k = "cam_unnorm_rots" -> <<"rots">>
          [] k = "cam_trans" -> <<"trans">>]

ParamsInputs ==
    UNION {{ParamsOf(n, ids, with_ids) : ids \in [1..n -> 0..MaxId], with_ids \in BOOLEAN} :
              n \in 0..MaxRows}

RemoveInputs == UNION {[1..n -> 0..MaxId] : n \in 0..MaxRemove}

InitFilter ==
    /\ fp_params0 \in ParamsInputs
    /\ fp_to_remove_ids \in RemoveInputs
    /\ fp_params = fp_params0
    /\ fp_returned = FALSE
    /\ DriverIdle
    /\ GetDatasetIdle

\* filter_semantic_params is called
CallFilter ==
    /\ ~fp_returned
    /\ fp_params' = FilterSemanticParams(fp_params, fp_to_remove_ids)
    /\ fp_returned' = TRUE
    /\ UNCHANGED <<fp_params0, fp_to_remove_ids, driver_vars, gd_vars>>

NextFilter == CallFilter

SpecFilter == InitFilter /\ [][NextFilter]_vars

-----------------------------------------------------------------------------
(* The claims *)

\* every y in s comes after some x
Preceded(s, x, y) ==
    \A j \in 1..Len(s) : s[j] = y => \E i \in 1..(j - 1) : s[i] = x

\* whether the evaluated split is the training split, as the experiment file
\* has it: use_train_split, true when the file does not define it
TrainSplit ==
    IF "data.use_train_split" \in experiment_config.keys
    THEN experiment_config.use_train_split
    ELSE TRUE

\* <workdir>/<run_name> of the experiment file
RunDir == OsPathJoin(experiment_config.workdir, experiment_config.run_name)

\* the run has called an evaluation routine
EvalInvoked == eval_call # <<>>

\* C1: a run that reaches the evaluation calls exactly one of eval and
\* eval_nvs, once: eval with <workdir>/<run_name>/eval_train when
\* use_train_split is true or absent, eval_nvs with
\* <workdir>/<run_name>/eval_nvs when it is false; the other routine is never
\* called, whatever use_wandb is
C1_Dispatch ==
    /\ TrainSplit => Count(trace, "eval_nvs") = 0
    /\ ~TrainSplit => Count(trace, "eval") = 0
    /\ Count(trace, "eval") + Count(trace, "eval_nvs") = (IF EvalInvoked THEN 1 ELSE 0)
    /\ EvalInvoked =>
          /\ eval_call[1].routine = (IF TrainSplit THEN "eval" ELSE "eval_nvs")
          /\ eval_call[1].eval_dir =
                OsPathJoin(RunDir, IF TrainSplit THEN <<"eval_train">> ELSE <<"eval_nvs">>)
    /\ (pc \in {"wandb_finish", "done"} \/ error.type = "EvalError") => EvalInvoked

\* C1, its case: a run without use_train_split in its file and with tracking
\* has called eval, and a later state of it is over
C1_Witness ==
    /\ pc = "done"
    /\ "data.use_train_split" \notin experiment_config.keys
    /\ experiment_config.use_wandb
    /\ eval_call # <<>>
    /\ eval_call[1].routine = "eval"

\* C2: with use_wandb the tracking run is opened once, before the evaluation
\* routine is called, and closed once, after it has returned, in both
\* branches of the dispatch; without use_wandb it is neither opened nor closed
\* at any point and the routine gets no tracking handle
C2_Lifecycle ==
    /\ experiment_config.use_wandb =>
          /\ Preceded(trace, "wandb.init", "eval")
          /\ Preceded(trace, "wandb.init", "eval_nvs")
          /\ Preceded(trace, "returned", "finish")
          /\ Count(trace, "wandb.init") <= 1
          /\ Count(trace, "finish") <= 1
          /\ EvalInvoked => eval_call[1].wandb_run # <<>>
          /\ pc = "done" =>
                /\ Count(trace, "wandb.init") = 1
                /\ Count(trace, "finish") = 1
                /\ trace[Len(trace)] = "finish"
    /\ ~experiment_config.use_wandb =>
          /\ Count(trace, "wandb.init") = 0
          /\ Count(trace, "finish") = 0
          /\ EvalInvoked => eval_call[1].wandb_run = <<>>

\* C2, its case: a run with tracking whose novel-view evaluation returned is
\* over
C2_Witness ==
    /\ pc = "done"
    /\ experiment_config.use_wandb
    /\ ~TrainSplit
    /\ Count(trace, "returned") = 1

\* C3: when a run has ended, the tracking run was closed if and only if it
\* was opened, an evaluation that raised included
C3_ClosedIffOpened ==
    pc \in {"done", "failed"} =>
        /\ Count(trace, "finish") = Count(trace, "wandb.init")
        /\ Preceded(trace, "wandb.init", "finish")

\* name is w in some letter case
SameLetters(name, w) ==
    /\ Len(name) = Len(w)
    /\ \A i \in 1..Len(w) : name[i] \in {w[i], UpperChar(w[i])}

\* the adapter the specification gives for each of its ten names
VariantOf(w) ==
    CASE w = <<"i", "c", "l">> -> "ICLDataset"
      [] w = <<"r", "e", "p", "l", "i", "c", "a">> -> "ReplicaDataset"
      [] w = <<"r", "e", "p", "l", "i", "c", "a", "v", "2">> -> "ReplicaV2Dataset"
      [] w = <<"a", "z", "u", "r", "e", "k", "i", "n", "e", "c", "t">> -> "AzureKinectDataset"
      [] w = <<"s", "c", "a", "n", "n", "e", "t">> -> "ScannetDataset"
      [] w = <<"a", "i", "2", "t", "h", "o", "r">> -> "Ai2thorDataset"
      [] w = <<"r", "e", "c", "o", "r", "d", "3", "d">> -> "Record3DDataset"
      [] w = <<"r", "e", "a", "l", "s", "e", "n", "s", "e">> -> "RealsenseDataset"
      [] w = <<"t", "u", "m">> -> "TUMDataset"
      [] w = <<"s", "c", "a", "n", "n", "e", "t", "p", "p">> -> "ScannetPPDataset"
      [] w = <<"a", "z", "u", "r", "e">> -> "AzureKinectDataset"

\* get_dataset has returned or raised as the set names of accepted names asks:
\* a name that is one of them in some letter case got exactly one adapter, of
\* its variant, ScannetPP without config_dict and the others with it; any
\* other name got no adapter and the unknown-dataset error
ResolvedBy(names) ==
    LET name == gd_config_dict.dataset_name
        out == gd_result[1]
        known == {w \in names : SameLetters(name, w)}
    IN  IF known # {}
        THEN /\ out.raised = ""
             /\ Len(out.constructed) = 1
             /\ \A w \in known :
                   /\ out.constructed[1].cls = VariantOf(w)
                   /\ out.constructed[1].positional =
                         (IF VariantOf(w) = "ScannetPPDataset"
                          THEN <<"basedir", "sequence">>
                          ELSE <<"config_dict", "basedir", "sequence">>)
        ELSE /\ out.raised = "ValueError"
             /\ out.constructed = <<>>

\* C4 as stated: get_dataset resolves the ten names in any letter case to
\* their adapter and fails with the unknown-dataset error for any other name
C4_TenNames == gd_result # <<>> => ResolvedBy(TenNames)

\* C4 as amended: get_dataset resolves the ten names and "azure", a second
\* name of the AzureKinect adapter, in any letter case, and fails with the
\* unknown-dataset error for any other name
C4_ElevenNames == gd_result # <<>> => ResolvedBy(TenNames \cup {<<"a", "z", "u", "r", "e">>})

\* C4, its case: get_dataset was called with a name in mixed case and has
\* constructed the ScannetPP adapter
C4_Witness ==
    /\ gd_result # <<>>
    /\ gd_config_dict.dataset_name = <<"S", "c", "a", "n", "n", "e", "t", "P", "P">>
    /\ Len(gd_result[1].constructed) = 1

\* where the experiment file asks the tensors to be
ConfiguredDevice == Placement(TorchDevice(experiment_config.primary_device), cuda)

\* C5: every key of the archive becomes a tensor on the configured device;
\* the keys of the exclusion set are not gradient-tracked, the others are
\* floating-point and gradient-tracked; the mapping has the keys of the
\* archive
C5_OnConfiguredDevice ==
    local.params # <<>> =>
        LET params == local.params[1]
            archive == load_call[1].archive[1]
        IN  /\ DOMAIN params = DOMAIN archive
            /\ \A k \in DOMAIN params :
                  /\ params[k].device = ConfiguredDevice
                  /\ k \in load_call[1].params_opt_exclude => ~params[k].requires_grad
                  /\ k \notin load_call[1].params_opt_exclude =>
                        /\ params[k].requires_grad
                        /\ params[k].dtype = "float32"

\* C6: load_scene_data is given <workdir>/<run_name>/params.npz when the
\* experiment file has no scene_path, and the value of scene_path as it is
\* when it has one
C6_ScenePath ==
    load_call # <<>> =>
        IF "scene_path" \notin experiment_config.keys
        THEN /\ load_call[1].scene_path = OsPathJoin(RunDir, <<"params.npz">>)
             /\ (experiment_config.workdir = <<"exp">> /\ experiment_config.run_name = <<"run">>)
                   => load_call[1].scene_path = <<"exp", "/", "run", "/", "params.npz">>
        ELSE load_call[1].scene_path = experiment_config.scene_path

\* C6, its case: load_scene_data was called in a run whose file has no
\* scene_path
C6_Witness ==
    /\ load_call # <<>>
    /\ "scene_path" \notin experiment_config.keys
    /\ experiment_config.workdir = <<"exp">>
    /\ experiment_config.run_name = <<"run">>

\* <workdir>/<run_name>/config.py
ConfigCopy == OsPathJoin(RunDir, <<"config.py">>)

\* the results directory exists and holds a copy of the experiment file
ResultsWritten ==
    /\ RunDir \in fs.dirs
    /\ ConfigCopy \in DOMAIN fs.files
    /\ fs.files[ConfigCopy] = fs.files[args_experiment]

\* the run has ended in the results-directory step
FailedAtResultsDir == pc = "failed" /\ error.what = "results_dir"

\* C7: with load_checkpoint the run creates no directory and copies nothing;
\* without it, a run that gets past the step has created <workdir>/<run_name>
\* and copied the experiment file to config.py in it, once each; and when the
\* same experiment file is run again the step succeeds on the directory that
\* now exists and leaves the directory and the copy as they were
C7_ResultsDir ==
    /\ experiment_config.load_checkpoint =>
          /\ Count(trace, "makedirs") = 0
          /\ Count(trace, "copy") = 0
          /\ fs = fs_at_start
    /\ ~experiment_config.load_checkpoint =>
          /\ Count(trace, "makedirs") <= 1
          /\ Count(trace, "copy") <= 1
          /\ passed_results_dir[run] =>
                /\ Count(trace, "makedirs") = 1
                /\ Count(trace, "copy") = 1
                /\ ResultsWritten
          /\ (run > 1 /\ passed_results_dir[run - 1]) =>
                /\ ~FailedAtResultsDir
                /\ passed_results_dir[run] => fs = fs_at_start

\* C7, its case: the second run on the same experiment file, without
\* load_checkpoint, is past the step, its directory having been there when it
\* started
C7_Witness ==
    /\ run = 2
    /\ ~experiment_config.load_checkpoint
    /\ passed_results_dir[2]
    /\ RunDir \in fs_at_start.dirs

\* the keys that are missing from the stated minimum and that a run without
\* tracking reads
FurtherKeys == {"data.num_frames", "wandb", "wandb.name"}

\* C8 as stated: with the keys of the stated minimum and no others, and
\* use_wandb false, no key lookup fails
C8_MinimumSuffices ==
    (experiment_config.keys = MinimumKeys /\ ~experiment_config.use_wandb)
        => error.type # "KeyError"

\* C8 as amended: with the keys of the stated minimum, data.num_frames and
\* wandb.name and no others, and use_wandb false, no key lookup fails
C8_MinimumAndTwoSuffice ==
    (experiment_config.keys = MinimumKeys \cup FurtherKeys /\ ~experiment_config.use_wandb)
        => error.type # "KeyError"

\* C8, its case: a run with exactly those keys has called the evaluation
C8_Witness ==
    /\ experiment_config.keys = MinimumKeys \cup FurtherKeys
    /\ ~experiment_config.use_wandb
    /\ EvalInvoked

\* the run has ended in dataset resolution or in the loading of the archive
FailedBeforeTracking ==
    /\ pc = "failed"
    /\ error.what \in {"get_dataset", "load_scene_data"}

\* some step of the trace is the opening of the tracking run or a call of an
\* evaluation routine
TrackedOrEvaluated == Range(trace) \cap {"wandb.init", "eval", "eval_nvs"} # {}

\* C10: the tracking run is opened and the evaluation routine called only
\* after the dataset was constructed and then the archive loaded; a run that
\* ends in dataset resolution or in archive loading has opened no tracking
\* run and called no evaluation, and without load_checkpoint it leaves the
\* results directory and the config copy it wrote before
C10_Order ==
    /\ TrackedOrEvaluated =>
          /\ local.dataset # <<>>
          /\ local.params # <<>>
          /\ \A k \in 1..Len(trace) :
                trace[k] \in {"wandb.init", "eval", "eval_nvs"} =>
                    \E i, j \in 1..(k - 1) :
                        i < j /\ trace[i] = "dataset" /\ trace[j] = "load_scene_data"
    /\ FailedBeforeTracking =>
          /\ ~TrackedOrEvaluated
          /\ ~experiment_config.load_checkpoint => ResultsWritten

\* C10, its case: a run without load_checkpoint has ended on an unknown
\* dataset name
C10_Witness ==
    /\ pc = "failed"
    /\ error = [type |-> "ValueError", what |-> "get_dataset"]
    /\ ~experiment_config.load_checkpoint

\* the rows of tensor at the indices of keep, in their order
RowsAt(tensor, keep) ==
    [r \in 1..Cardinality(keep) |->
        tensor[CHOOSE i \in keep : Cardinality({j \in keep : j <= i}) = r]]

\* the rows of the call's semantic_ids whose id is not in to_remove_ids
KeptRows ==
    {i \in 1..Len(fp_params0["semantic_ids"]) :
        \A j \in 1..Len(fp_to_remove_ids) :
            fp_params0["semantic_ids"][i][1] # fp_to_remove_ids[j]}

\* C9: with semantic_ids, every key but the two camera-pose keys keeps
\* exactly the rows whose semantic id is not in to_remove_ids, in their
\* order, and the camera-pose tensors are as they were (ids 0,1,2,0 without
\* id 0 leave 2 rows); without semantic_ids the mapping is as it was
C9_Filter ==
    fp_returned =>
        IF "semantic_ids" \in DOMAIN fp_params0
        THEN /\ DOMAIN fp_params = DOMAIN fp_params0
             /\ \A k \in DOMAIN fp_params0 :
                   IF k \in {"cam_unnorm_rots", "cam_trans"}
                   THEN fp_params[k] = fp_params0[k]
                   ELSE fp_params[k] = RowsAt(fp_params0[k], KeptRows)
             /\ (fp_params0["semantic_ids"] = <<<<0>>, <<1>>, <<2>>, <<0>>>>
                    /\ fp_to_remove_ids = <<0>>)
                   => /\ Len(fp_params["means3D"]) = 2
                      /\ Len(fp_params["rgb_colors"]) = 2
                      /\ Len(fp_params["semantic_ids"]) = 2
        ELSE fp_params = fp_params0

\* C9, its case: the call with ids 0,1,2,0 and id 0 to remove has returned
C9_Witness ==
    /\ fp_returned
    /\ "semantic_ids" \in DOMAIN fp_params0
    /\ fp_params0["semantic_ids"] = <<<<0>>, <<1>>, <<2>>, <<0>>>>
    /\ fp_to_remove_ids = <<0>>

=============================================================================
